---- MODULE Spec2Model ----
(***************************************************************************)
(* Two ledger programs: the token escrow (Refund) and the constant-product *)
(* AMM (Initialize, Deposit, Withdraw, Swap, and the setters of its Config *)
(* record).  Every instruction is one atomic action: the ledger runtime    *)
(* discards all effects of an instruction that returns an error, so a      *)
(* failing handler leaves the ledger unchanged and only its result code    *)
(* (and the record of what it attempted) is observable.                    *)
(***************************************************************************)
EXTENDS Integers, Sequences, FiniteSets, TLC

(***************************************************************************)
(* Bounds of the model                                                     *)
(***************************************************************************)
MaxVault == 1        \* largest initial token balance of an escrow vault
MaxAccounts == 8     \* longest account list handed to Refund
MaxAmount == 2       \* largest liquidity-share amount in a payload
MaxCap == 2          \* largest max_x / max_y / min_x / min_y in a payload
MaxSupply == 4       \* no Deposit is attempted beyond this share supply
MaxDonation == 1     \* largest balance a vault holds before the first Deposit
MaxClock == 1        \* largest ledger time
MaxSwap == 3         \* largest input amount of a Swap payload
MaxMin == 2          \* largest min of a Swap payload
MaxPoolX == 1        \* largest balance of vault_x before the first Swap
MaxPoolY == 3        \* largest balance of vault_y before the first Swap
SwapTokens == 3      \* tokens of each mint the user of the swapped pool holds
GateReserve == 1     \* balance of each vault and share supply of the gated pool
GateTokens == 0      \* tokens of each mint the user of the gated pool holds
PoolTokens == 1      \* tokens of each mint the user holds before Initialize

(***************************************************************************)
(* Escrow program: keys, derived addresses, record layout                  *)
(***************************************************************************)
Makers == {"m1", "m2"}
Mints == {"A", "B"}
MintInputs == Mints \cup {"nomint"}
EscrowAccts == {"e1", "e2", "k1", "w1"}

EscrowProgram == "escrow_program"
SystemProgram == "system_program"
TokenProgram == "token_program"

\* Escrow::LEN = 8 + 32 + 32 + 32 + 8 + 1
EscrowLEN == 113
\* rent of a token account, paid by the funding account on creation
AtaRent == 2
\* rent held by an escrow account
EscrowRent == 3

\* A key is a 4-tuple <<kind, name, seed, bump>>.
Pk(name) == <<"key", name, 0, 0>>
ZeroKey == Pk("zero")

\* seed lists whose hash lies on the curve: no derived address exists
OnCurveSeeds == {<<"m2", 0, 0>>}

\* create_program_address(["escrow", maker, seed, bump], program id)
create_program_address(maker, seed, bump) ==
    IF <<maker[2], seed, bump>> \in OnCurveSeeds
    THEN [ok |-> FALSE, key |-> ZeroKey]
    ELSE [ok |-> TRUE, key |-> <<"pda", maker[2], seed, bump>>]

\* find_program_address([owner, token program, mint], associated-token id)
ATA(owner, mint) == <<"ata", owner, mint>>

\* the address of each escrow-shaped account of the ledger
Key(e) ==
    CASE e = "e1" -> create_program_address(Pk("m1"), 1, 255).key
      [] e = "e2" -> create_program_address(Pk("m2"), 1, 255).key
      [] OTHER -> Pk(e)

TokAddrs == {ATA(Key(e), m) : e \in EscrowAccts, m \in Mints}
              \cup {ATA(Pk(k), m) : k \in Makers, m \in Mints}

ZeroRecord == [maker |-> ZeroKey, seed |-> 0, mint_a |-> "zero", bump |-> 0]

VARIABLES
    escrows,    \* escrow-shaped accounts: owner, data length, record, lamports
    tok,        \* token accounts by address: exists, amount, lamports
    lamports,   \* lamports of the makers' wallets
    last,       \* the last instruction: inputs, where it stopped, result
    config,     \* the pool's Config record
    vault_x,    \* token balance of the pool's vault of mint_x
    vault_y,    \* token balance of the pool's vault of mint_y
    supply,     \* supply of each liquidity mint
    user,       \* the user's balances: x, y and shares of each liquidity mint
    clock,      \* Clock::get().unix_timestamp
    accounts    \* the pool's config account and liquidity mint account

escrowVars == <<escrows, tok, lamports>>
ammVars == <<config, vault_x, vault_y, supply, user, clock, accounts>>
vars == <<escrows, tok, lamports, last, config, vault_x, vault_y, supply, user, clock,
          accounts>>

(***************************************************************************)
(* Escrow::set_inner as used by Make: the record stored in an open escrow  *)
(***************************************************************************)
EscrowRecord(maker, seed, mint_a, bump) ==
    [maker |-> Pk(maker), seed |-> seed, mint_a |-> mint_a, bump |-> bump]

InitEscrows ==
    [e \in EscrowAccts |->
        CASE e = "e1" -> [owner |-> EscrowProgram, data_len |-> EscrowLEN,
                          rec |-> EscrowRecord("m1", 1, "A", 255),
                          lamports |-> EscrowRent]
          [] e = "e2" -> [owner |-> EscrowProgram, data_len |-> EscrowLEN,
                          rec |-> EscrowRecord("m2", 1, "A", 255),
                          lamports |-> EscrowRent]
          [] e = "k1" -> [owner |-> EscrowProgram, data_len |-> EscrowLEN,
                          rec |-> ZeroRecord, lamports |-> EscrowRent]
          [] OTHER    -> [owner |-> EscrowProgram, data_len |-> 0,
                          rec |-> ZeroRecord, lamports |-> 1]]

NoTok == [exists |-> FALSE, amount |-> 0, lamports |-> 0]
Tok(n) == [exists |-> TRUE, amount |-> n, lamports |-> AtaRent]

(***************************************************************************)
(* Refund                                                                  *)
(***************************************************************************)
\* the account lists and flags a caller may hand to Refund: any escrow-shaped
\* account, any signer, and for the vault and the maker's token account either
\* an associated address of the named escrow / maker or a foreign one
RefundCalls ==
    UNION {
      [n : {MaxAccounts - 1, MaxAccounts}, maker : {k}, is_signer : BOOLEAN,
       escrow : {e}, mint_a : MintInputs,
       vault : {ATA(Key(e), m) : m \in Mints} \cup {ATA(Key("e1"), "A")},
       maker_ata_a : {ATA(Pk(k), m) : m \in Mints}]
      : k \in Makers, e \in EscrowAccts }

\* ProgramError of each place where Refund can stop
ResultOf(step) ==
    CASE step = "arity" -> "NotEnoughAccountKeys"
      [] step = "signer" -> "MissingRequiredSignature"
      [] step \in {"escrow_owner", "mint_owner", "vault_owner", "pda"}
            -> "InvalidAccountOwner"
      [] step \in {"vault_addr", "load", "maker"} -> "InvalidAccountData"
      [] step = "derive" -> "InvalidSeeds"
      [] step = "done" -> "Ok"
      [] OTHER -> "Custom"

\* SignerAccount::check
SignerAccountCheck(c) == c.is_signer

\* ProgramAccount::check
ProgramAccountCheck(E, c) == E[c.escrow].owner = EscrowProgram

\* MintInterface::check
MintInterfaceCheck(c) == c.mint_a \in Mints

\* AssociatedTokenAccount::check: "ok" or the guard that fails
AssociatedTokenAccountCheck(T, c) ==
    IF ~T[c.vault].exists THEN "vault_owner"
    ELSE IF c.vault # ATA(Key(c.escrow), c.mint_a) THEN "vault_addr"
    ELSE "ok"

\* RefundAccounts::try_from: "ok" or the guard that fails
RefundAccountsTryFrom(E, T, c) ==
    IF c.n # 8 THEN "arity"
    ELSE IF ~SignerAccountCheck(c) THEN "signer"
    ELSE IF ~ProgramAccountCheck(E, c) THEN "escrow_owner"
    ELSE IF ~MintInterfaceCheck(c) THEN "mint_owner"
    ELSE AssociatedTokenAccountCheck(T, c)

\* AssociatedTokenAccount::init_if_needed (CreateIdempotent, funded by maker)
InitIfNeeded(T, L, c) ==
    IF c.maker_ata_a # ATA(Pk(c.maker), c.mint_a)
    THEN [ok |-> FALSE, T |-> T, L |-> L]
    ELSE IF T[c.maker_ata_a].exists
    THEN [ok |-> TRUE, T |-> T, L |-> L]
    ELSE IF L[c.maker] < AtaRent
    THEN [ok |-> FALSE, T |-> T, L |-> L]
    ELSE [ok |-> TRUE,
          T |-> [T EXCEPT ![c.maker_ata_a] = Tok(0)],
          L |-> [L EXCEPT ![c.maker] = @ - AtaRent]]

\* RefundVerify without the comparison of the derived address
RefundVerifyNoCompare(E, c) ==
    LET escrow == E[c.escrow].rec
        escrow_key == create_program_address(Pk(c.maker), escrow.seed, escrow.bump)
    IN  IF E[c.escrow].data_len # EscrowLEN THEN "load"
        ELSE IF ~escrow_key.ok THEN "derive"
        ELSE IF Pk(c.maker) # escrow.maker THEN "maker"
        ELSE "ok"

\* the checks of Refund::process before any token moves
RefundVerify(E, c) ==
    LET escrow == E[c.escrow].rec
        escrow_key == create_program_address(Pk(c.maker), escrow.seed, escrow.bump)
    IN  IF E[c.escrow].data_len # EscrowLEN THEN "load"
        ELSE IF ~escrow_key.ok THEN "derive"
        ELSE IF escrow_key.key # Key(c.escrow) THEN "pda"
        ELSE IF Pk(c.maker) # escrow.maker THEN "maker"
        ELSE "ok"

\* the transfer crediting a token account of the maker's other mint
RefundTransferElsewhere(T, c, amount) ==
    IF ~T[c.vault].exists \/ ~T[c.maker_ata_a].exists \/ T[c.vault].amount < amount
    THEN [ok |-> FALSE, T |-> T]
    ELSE [ok |-> TRUE,
          T |-> [T EXCEPT ![c.vault].amount = @ - amount,
                          ![ATA(Pk(c.maker), "B")].amount = @ + amount]]

\* Transfer { from: vault, to: maker_ata_a, authority: escrow, amount }
RefundTransfer(T, c, amount) ==
    IF ~T[c.vault].exists \/ ~T[c.maker_ata_a].exists \/ T[c.vault].amount < amount
    THEN [ok |-> FALSE, T |-> T]
    ELSE [ok |-> TRUE,
          T |-> [T EXCEPT ![c.vault].amount = @ - amount,
                          ![c.maker_ata_a].amount = @ + amount]]

\* CloseAccount { account: vault, destination: maker, authority: escrow }
RefundCloseVault(T, L, c) ==
    IF ~T[c.vault].exists \/ T[c.vault].amount # 0
    THEN [ok |-> FALSE, T |-> T, L |-> L]
    ELSE [ok |-> TRUE,
          T |-> [T EXCEPT ![c.vault] = NoTok],
          L |-> [L EXCEPT ![c.maker] = @ + T[c.vault].lamports]]

\* ProgramAccount::close that zeroes the account but leaves its owner
ProgramAccountCloseKeepOwner(E, L, c) ==
    [E |-> [E EXCEPT ![c.escrow] = [owner |-> @.owner,
                                     data_len |-> @.data_len,
                                     rec |-> ZeroRecord,
                                     lamports |-> 0]],
     L |-> [L EXCEPT ![c.maker] = @ + E[c.escrow].lamports]]

\* ProgramAccount::close(escrow, maker)
ProgramAccountClose(E, L, c) ==
    [E |-> [E EXCEPT ![c.escrow] = [owner |-> SystemProgram,
                                     data_len |-> @.data_len,
                                     rec |-> ZeroRecord,
                                     lamports |-> 0]],
     L |-> [L EXCEPT ![c.maker] = @ + E[c.escrow].lamports]]

Stop(step, cpis, E, T, L, amount) ==
    [step |-> step, res |-> ResultOf(step), cpis |-> cpis,
     E |-> E, T |-> T, L |-> L, amount |-> amount]

\* Refund::try_from followed by Refund::process
RefundRun(E, T, L, c) ==
    LET acc == RefundAccountsTryFrom(E, T, c)
        ini == InitIfNeeded(T, L, c)
        ver == RefundVerify(E, c)
        amount == ini.T[c.vault].amount
        tra == RefundTransfer(ini.T, c, amount)
        clo == RefundCloseVault(tra.T, ini.L, c)
        fin == ProgramAccountClose(E, clo.L, c)
    IN  IF acc # "ok" THEN Stop(acc, <<>>, E, T, L, 0)
        ELSE IF ~ini.ok THEN Stop("ata_init", <<"CreateIdempotent">>, E, T, L, 0)
        ELSE IF ver # "ok" THEN Stop(ver, <<"CreateIdempotent">>, E, T, L, 0)
        ELSE IF ~tra.ok
        THEN Stop("transfer", <<"CreateIdempotent", "Transfer">>, E, T, L, 0)
        ELSE IF ~clo.ok
        THEN Stop("close_vault", <<"CreateIdempotent", "Transfer", "CloseAccount">>,
                  E, T, L, 0)
        ELSE Stop("done", <<"CreateIdempotent", "Transfer", "CloseAccount",
                            "ProgramAccountClose">>,
                  fin.E, clo.T, fin.L, amount)

Refund ==
    \E c \in RefundCalls :
        \E out \in {RefundRun(escrows, tok, lamports, c)} :
            /\ escrows' = out.E
            /\ tok' = out.T
            /\ lamports' = out.L
            /\ UNCHANGED ammVars
            /\ last' = [op |-> "Refund", n |-> c.n, maker |-> c.maker,
                        escrow |-> c.escrow, mint_a |-> c.mint_a, step |-> out.step, res |-> out.res,
                        cpis |-> out.cpis, amount |-> out.amount]

(***************************************************************************)
(* AMM program: Config record, accounts, payloads                          *)
(***************************************************************************)
\* AmmState
Uninitialized == 0
Initialized == 1
Disabled == 2
WithdrawOnly == 3
AmmStates == {Uninitialized, Initialized, Disabled, WithdrawOnly}

\* Config::LEN = 1 + 8 + 32 + 32 + 32 + 2 + 1
ConfigLEN == 108
\* size_of::<DepositInstructionData>() = size_of::<WithdrawInstructionData>()
PayloadLEN == 32
\* the precision argument the handlers hand to the curve engine
Precision == 6
\* tokens of each mint the user holds before the first Deposit
UserTokens == 4
\* supply of the liquidity mint the caller created for itself
OwnSupply == 1

AmmProgram == "amm_program"
ConfigKey == <<"pda", "config", 7, 254>>
MintLpKey == <<"pda", "mint_lp", 0, 252>>

\* space of the liquidity mint account created by Initialize
MintLEN == 82
\* decimals of the liquidity mint
MintDecimals == 6

\* the two accounts before Initialize has created them
NoAccounts ==
    [config |-> [owner |-> SystemProgram, data_len |-> 0],
     mint_lp |-> [owner |-> SystemProgram, data_len |-> 0, decimals |-> 0,
                  mint_authority |-> ZeroKey]]

\* the two accounts as a successful Initialize leaves them
PoolAccounts ==
    [config |-> [owner |-> AmmProgram, data_len |-> ConfigLEN],
     mint_lp |-> [owner |-> TokenProgram, data_len |-> MintLEN,
                  decimals |-> MintDecimals, mint_authority |-> ConfigKey]]
\* "lp" is the mint created by Initialize (mint authority: config);
\* "own" is a mint the caller created (mint authority: the caller)
LpMints == {"lp", "own"}
MintAuthority(m) ==
    IF m = "lp" THEN accounts.mint_lp.mint_authority ELSE Pk("user")

\* the token program of the newer interface, which a caller may name as
\* token_program in place of the token program
Token2022Program == "token_2022_program"

\* find_program_address([owner, token_program, mint], associated-token id)
\* for a token_program the caller names
VaultAddress(owner, token_program, mint) ==
    IF token_program = TokenProgram THEN ATA(owner, mint)
    ELSE <<"ata", owner, mint, token_program>>

\* the user's token accounts of the two mints, and an address at which no
\* token account exists
UserAta(mint) == ATA(Pk("user"), mint)
NoAta(mint) == ATA(Pk("nobody"), mint)

\* the token accounts of the ledger that the pool's handlers can be handed:
\* the two vaults and the user's two accounts
TokenAccountExists(addr) ==
    addr \in {ATA(ConfigKey, "X"), ATA(ConfigKey, "Y"), UserAta("X"), UserAta("Y")}

\* the accounts a caller may name as config: the pool's record, or an
\* account of the same size that the system program owns
ConfigAccts == {"config", "other"}
ConfigOwner(a) == IF a = "config" THEN accounts.config.owner ELSE SystemProgram
ConfigDataLen(a) == IF a = "config" THEN accounts.config.data_len ELSE ConfigLEN

\* u16::to_le_bytes, u16::from_le_bytes
u16_to_le_bytes(v) == <<v % 256, (v \div 256) % 256>>
u16_from_le_bytes(b) == b[1] + 256 * b[2]

\* u64::to_le_bytes, u64::from_le_bytes
RECURSIVE LeBytes(_, _)
LeBytes(v, n) == IF n = 0 THEN <<>> ELSE <<v % 256>> \o LeBytes(v \div 256, n - 1)
RECURSIVE FromLeBytes(_)
FromLeBytes(b) == IF b = <<>> THEN 0 ELSE b[1] + 256 * FromLeBytes(Tail(b))
u64_to_le_bytes(v) == LeBytes(v, 8)
u64_from_le_bytes(b) == FromLeBytes(b)

\* the getters Config::seed and Config::fee
ConfigSeed(cfg) == u64_from_le_bytes(cfg.seed)
ConfigFee(cfg) == u16_from_le_bytes(cfg.fee)

\* the seed, fee and bumps of the pool
PoolSeed == 7
PoolFee == 30
ConfigBump == 254
LpBump == 252

\* the zero-filled data of a config account that has just been created
ZeroConfig ==
    [state |-> Uninitialized, seed |-> u64_to_le_bytes(0), authority |-> ZeroKey,
     mint_x |-> "zero", mint_y |-> "zero", fee |-> u16_to_le_bytes(0),
     config_bump |-> 0]

\* Config::set_inner as called by Initialize
InitConfig ==
    [state |-> Initialized, seed |-> u64_to_le_bytes(PoolSeed),
     authority |-> ZeroKey, mint_x |-> "X", mint_y |-> "Y",
     fee |-> u16_to_le_bytes(PoolFee), config_bump |-> ConfigBump]

\* payloads and account lists a caller may hand to Deposit and Withdraw:
\* every combination of amount and limits on the pool's own accounts, and
\* for every amount one call with each single thing wrong
BaseCall(a, lx, ly) ==
    [n |-> 9, data_len |-> PayloadLEN, amount |-> a, lim_x |-> lx, lim_y |-> ly,
     expiration |-> MaxClock, mint_lp |-> "lp", config |-> "config",
     vault_x |-> ATA(ConfigKey, "X"), vault_y |-> ATA(ConfigKey, "Y"),
     user_x_ata |-> UserAta("X"), user_y_ata |-> UserAta("Y"),
     token_program |-> TokenProgram]

AmmCalls ==
    {BaseCall(a, lx, ly) : a \in 0..MaxAmount, lx \in 0..MaxCap, ly \in 0..MaxCap}
    \cup UNION {
        {[BaseCall(a, MaxCap, MaxCap) EXCEPT !.n = 8],
         [BaseCall(a, MaxCap, MaxCap) EXCEPT !.data_len = PayloadLEN - 1],
         [BaseCall(a, MaxCap, MaxCap) EXCEPT !.expiration = 0],
         [BaseCall(a, MaxCap, MaxCap) EXCEPT !.expiration = 0, !.config = "other"],
         [BaseCall(0, MaxCap, MaxCap) EXCEPT !.expiration = 0],
         [BaseCall(a, MaxCap, MaxCap) EXCEPT !.mint_lp = "own"],
         [BaseCall(a, 0, 0) EXCEPT !.mint_lp = "own"],
         [BaseCall(a, MaxCap, MaxCap) EXCEPT !.config = "other"],
         [BaseCall(a, MaxCap, MaxCap) EXCEPT !.vault_x = ATA(Pk("user"), "X")],
         [BaseCall(a, MaxCap, MaxCap) EXCEPT !.vault_y = ATA(Pk("user"), "Y")],
         [BaseCall(a, 1, 1) EXCEPT
             !.token_program = Token2022Program,
             !.vault_x = VaultAddress(ConfigKey, Token2022Program, "X"),
             !.vault_y = VaultAddress(ConfigKey, Token2022Program, "Y")],
         [BaseCall(a, 1, 1) EXCEPT !.user_x_ata = NoAta("X")],
         [BaseCall(a, 1, 1) EXCEPT !.user_y_ata = NoAta("Y")]}
        : a \in 1..MaxAmount }

\* ProgramError of each place where Deposit or Withdraw can stop
AmmResultOf(step) ==
    CASE step = "arity" -> "NotEnoughAccountKeys"
      [] step \in {"data_len", "zero", "expired"} -> "InvalidInstructionData"
      [] step = "config_owner" -> "InvalidAccountOwner"
      [] step \in {"config_len", "state", "vault_x", "vault_y", "vault_data"}
            -> "InvalidAccountData"
      [] step \in {"curve", "slippage", "degenerate"} -> "InvalidArgument"
      [] step \in {"curve_init", "curve_swap"} -> "Custom(1)"
      [] step = "panic" -> "ProgramFailedToComplete"
      [] step = "done" -> "Ok"
      [] OTHER -> "Custom"

(***************************************************************************)
(* Curve engine (crate constant_product_curve, called by the handlers)     *)
(***************************************************************************)
CurveError == [kind |-> "err", x |-> 0, y |-> 0]
CurvePanic == [kind |-> "panic", x |-> 0, y |-> 0]
CurveOk(x, y) == [kind |-> "ok", x |-> x, y |-> y]

\* ConstantProduct::xy_deposit_amounts_from_l(x, y, l, a, precision):
\*   ratio = (l + a) * precision / l          (division by zero is an error)
\*   deposit = reserve * ratio / precision - reserve
xy_deposit_amounts_from_l(x, y, l, a, precision) ==
    IF l = 0 THEN CurveError
    ELSE LET ratio == ((l + a) * precision) \div l
         IN  CurveOk((x * ratio) \div precision - x,
                     (y * ratio) \div precision - y)

\* ConstantProduct::xy_withdraw_amounts_from_l(x, y, l, a, precision):
\*   ratio = (l - a) * precision / l
\*   withdraw = reserve - reserve * ratio / precision
\* The set of results the build can produce.  l - a is an unchecked u64
\* subtraction: for a > l it aborts the program when overflow checks are
\* compiled in, and otherwise wraps to a ratio so large that the final
\* checked subtraction fails unless both reserves are zero.
xy_withdraw_amounts_from_l(x, y, l, a, precision) ==
    IF a > l
    THEN {CurvePanic,
          IF l = 0 \/ x > 0 \/ y > 0 THEN CurveError ELSE CurveOk(0, 0)}
    ELSE IF l = 0 THEN {CurveError}
    ELSE LET ratio == ((l - a) * precision) \div l
         IN  {CurveOk(x - (x * ratio) \div precision,
                      y - (y * ratio) \div precision)}

(***************************************************************************)
(* Guards shared by Deposit and Withdraw                                   *)
(***************************************************************************)
\* DepositAccounts::try_from / WithdrawAccounts::try_from
AmmAccountsTryFrom(c) == IF c.n < 9 THEN "arity" ELSE "ok"

\* the parse that also rejects a payload expiring at the current time
DepositInstructionDataTryFromStrict(c, now) ==
    IF c.data_len # PayloadLEN THEN "data_len"
    ELSE IF c.amount = 0 \/ c.lim_x = 0 \/ c.lim_y = 0 THEN "zero"
    ELSE IF now >= c.expiration THEN "expired"
    ELSE "ok"

\* DepositInstructionData::try_from
DepositInstructionDataTryFrom(c, now) ==
    IF c.data_len # PayloadLEN THEN "data_len"
    ELSE IF c.amount = 0 \/ c.lim_x = 0 \/ c.lim_y = 0 THEN "zero"
    ELSE IF now > c.expiration THEN "expired"
    ELSE "ok"

\* the parse that also rejects a zero min_x or min_y
WithdrawInstructionDataTryFromZeroMins(c, now) ==
    IF c.data_len # PayloadLEN THEN "data_len"
    ELSE IF c.amount = 0 \/ c.lim_x = 0 \/ c.lim_y = 0 THEN "zero"
    ELSE IF now > c.expiration THEN "expired"
    ELSE "ok"

\* WithdrawInstructionData::try_from
WithdrawInstructionDataTryFrom(c, now) ==
    IF c.data_len # PayloadLEN THEN "data_len"
    ELSE IF c.amount = 0 THEN "zero"
    ELSE IF now > c.expiration THEN "expired"
    ELSE "ok"

\* Config::load
ConfigLoad(c) ==
    IF ConfigDataLen(c.config) # ConfigLEN THEN "config_len"
    ELSE IF ConfigOwner(c.config) # AmmProgram THEN "config_owner"
    ELSE "ok"

\* the derivation checks that forget vault_y
VaultDerivationsXOnly(cfg, c) ==
    IF c.vault_x # VaultAddress(ConfigKey, c.token_program, cfg.mint_x) THEN "vault_x"
    ELSE "ok"

\* the vault derivation checks of Deposit::process and Withdraw::process
VaultDerivations(cfg, c) ==
    IF c.vault_x # VaultAddress(ConfigKey, c.token_program, cfg.mint_x) THEN "vault_x"
    ELSE IF c.vault_y # VaultAddress(ConfigKey, c.token_program, cfg.mint_y)
    THEN "vault_y"
    ELSE "ok"

\* "Deserialize token accounts": TokenAccount::from_account_info_unchecked
\* of vault_x and vault_y fails on an account that holds no token account
TokenAccountLoad(c) ==
    IF ~TokenAccountExists(c.vault_x) \/ ~TokenAccountExists(c.vault_y)
    THEN "vault_data"
    ELSE "ok"

(***************************************************************************)
(* Deposit                                                                 *)
(***************************************************************************)
\* the pool side of the ledger as one value
Pool(vx, vy, sup, usr) == [vx |-> vx, vy |-> vy, supply |-> sup, user |-> usr]

AmmStop(step, cpis, P, x, y) ==
    [step |-> step, res |-> AmmResultOf(step), cpis |-> cpis, P |-> P,
     x |-> x, y |-> y]

\* the amounts with the two reserves handed to the engine in the wrong order
DepositAmountsSwapped(P, c) ==
    IF P.supply[c.mint_lp] = 0 /\ P.vx = 0 /\ P.vy = 0
    THEN CurveOk(c.lim_x, c.lim_y)
    ELSE xy_deposit_amounts_from_l(P.vy, P.vx, P.supply[c.mint_lp], c.amount,
                                   Precision)

\* the amounts with the bootstrap case decided by the share supply alone
DepositAmountsSupplyOnly(P, c) ==
    IF P.supply[c.mint_lp] = 0
    THEN CurveOk(c.lim_x, c.lim_y)
    ELSE xy_deposit_amounts_from_l(P.vx, P.vy, P.supply[c.mint_lp], c.amount,
                                   Precision)

\* "Grab the amounts to deposit"
DepositAmounts(P, c) ==
    IF P.supply[c.mint_lp] = 0 /\ P.vx = 0 /\ P.vy = 0
    THEN CurveOk(c.lim_x, c.lim_y)
    ELSE xy_deposit_amounts_from_l(P.vx, P.vy, P.supply[c.mint_lp], c.amount,
                                   Precision)

\* the slippage check that forgets max_y
DepositSlippageXOnly(q, c) == q.x <= c.lim_x

\* "Check for slippage"
DepositSlippage(q, c) == q.x <= c.lim_x /\ q.y <= c.lim_y

\* Transfer { from: user_x_ata, to: vault_x, authority: user, amount: x }
DepositTransferX(P, c, x) ==
    IF c.user_x_ata # UserAta("X") \/ P.user.x < x THEN [ok |-> FALSE, P |-> P]
    ELSE [ok |-> TRUE, P |-> [P EXCEPT !.user.x = @ - x, !.vx = @ + x]]

\* Transfer { from: user_y_ata, to: vault_y, authority: user, amount: y }
DepositTransferY(P, c, y) ==
    IF c.user_y_ata # UserAta("Y") \/ P.user.y < y THEN [ok |-> FALSE, P |-> P]
    ELSE [ok |-> TRUE, P |-> [P EXCEPT !.user.y = @ - y, !.vy = @ + y]]

\* MintTo { mint: mint_lp, account: user_lp_ata, mint_authority: config, amount }
DepositMintTo(P, c) ==
    IF MintAuthority(c.mint_lp) # ConfigKey THEN [ok |-> FALSE, P |-> P]
    ELSE [ok |-> TRUE,
          P |-> [P EXCEPT !.supply[c.mint_lp] = @ + c.amount,
                          !.user.lp[c.mint_lp] = @ + c.amount]]

\* Deposit that keeps the transfers already made when a later step fails
DepositRunKeepsTransfers(cfg, P, now, c) ==
    LET acc == AmmAccountsTryFrom(c)
        dat == DepositInstructionDataTryFrom(c, now)
        loa == ConfigLoad(c)
        der == VaultDerivations(cfg, c)
        q   == DepositAmounts(P, c)
        des == TokenAccountLoad(c)
        tx  == DepositTransferX(P, c, q.x)
        ty  == DepositTransferY(tx.P, c, q.y)
        mi  == DepositMintTo(ty.P, c)
    IN  IF acc # "ok" THEN AmmStop(acc, <<>>, P, 0, 0)
        ELSE IF dat # "ok" THEN AmmStop(dat, <<>>, P, 0, 0)
        ELSE IF loa # "ok" THEN AmmStop(loa, <<>>, P, 0, 0)
        ELSE IF cfg.state # Initialized THEN AmmStop("state", <<>>, P, 0, 0)
        ELSE IF der # "ok" THEN AmmStop(der, <<>>, P, 0, 0)
        ELSE IF des # "ok" THEN AmmStop(des, <<>>, P, 0, 0)
        ELSE IF q.kind # "ok" THEN AmmStop("curve", <<>>, P, 0, 0)
        ELSE IF ~DepositSlippage(q, c) THEN AmmStop("slippage", <<>>, P, q.x, q.y)
        ELSE IF ~tx.ok THEN AmmStop("transfer_x", <<"TransferX">>, P, q.x, q.y)
        ELSE IF ~ty.ok
        THEN AmmStop("transfer_y", <<"TransferX", "TransferY">>, tx.P, q.x, q.y)
        ELSE IF ~mi.ok
        THEN AmmStop("mint_to", <<"TransferX", "TransferY", "MintTo">>, ty.P,
                     q.x, q.y)
        ELSE AmmStop("done", <<"TransferX", "TransferY", "MintTo">>, mi.P, q.x, q.y)

\* Deposit::try_from followed by Deposit::process
DepositRun(cfg, P, now, c) ==
    LET acc == AmmAccountsTryFrom(c)
        dat == DepositInstructionDataTryFrom(c, now)
        loa == ConfigLoad(c)
        der == VaultDerivations(cfg, c)
        q   == DepositAmounts(P, c)
        des == TokenAccountLoad(c)
        tx  == DepositTransferX(P, c, q.x)
        ty  == DepositTransferY(tx.P, c, q.y)
        mi  == DepositMintTo(ty.P, c)
    IN  IF acc # "ok" THEN AmmStop(acc, <<>>, P, 0, 0)
        ELSE IF dat # "ok" THEN AmmStop(dat, <<>>, P, 0, 0)
        ELSE IF loa # "ok" THEN AmmStop(loa, <<>>, P, 0, 0)
        ELSE IF cfg.state # Initialized THEN AmmStop("state", <<>>, P, 0, 0)
        ELSE IF der # "ok" THEN AmmStop(der, <<>>, P, 0, 0)
        ELSE IF des # "ok" THEN AmmStop(des, <<>>, P, 0, 0)
        ELSE IF q.kind # "ok" THEN AmmStop("curve", <<>>, P, 0, 0)
        ELSE IF ~DepositSlippage(q, c) THEN AmmStop("slippage", <<>>, P, q.x, q.y)
        ELSE IF ~tx.ok THEN AmmStop("transfer_x", <<"TransferX">>, P, q.x, q.y)
        ELSE IF ~ty.ok
        THEN AmmStop("transfer_y", <<"TransferX", "TransferY">>, P, q.x, q.y)
        ELSE IF ~mi.ok
        THEN AmmStop("mint_to", <<"TransferX", "TransferY", "MintTo">>, P, q.x, q.y)
        ELSE AmmStop("done", <<"TransferX", "TransferY", "MintTo">>, mi.P, q.x, q.y)

AmmLast(op, c, out) ==
    [op |-> op, amount |-> c.amount, lim_x |-> c.lim_x, lim_y |-> c.lim_y,
     mint_lp |-> c.mint_lp, expiration |-> c.expiration, config |-> c.config,
     vault_x |-> c.vault_x, vault_y |-> c.vault_y,
     token_program |-> c.token_program, step |-> out.step, res |-> out.res, cpis |-> out.cpis,
     x |-> out.x, y |-> out.y]

Commit(out) ==
    /\ vault_x' = out.P.vx
    /\ vault_y' = out.P.vy
    /\ supply' = out.P.supply
    /\ user' = out.P.user

Deposit ==
    \E c \in AmmCalls :
        /\ supply[c.mint_lp] + c.amount <= MaxSupply
        /\ \E out \in {DepositRun(config, Pool(vault_x, vault_y, supply, user),
                                   clock, c)} :
               /\ Commit(out)
               /\ last' = AmmLast("Deposit", c, out)
        /\ UNCHANGED <<config, clock, accounts, escrowVars>>

(***************************************************************************)
(* Withdraw                                                                *)
(***************************************************************************)
\* the amounts with a full exit releasing vault_x's balance on both sides
WithdrawAmountsBothX(P, c) ==
    IF P.supply[c.mint_lp] = c.amount
    THEN {CurveOk(P.vx, P.vx)}
    ELSE xy_withdraw_amounts_from_l(P.vx, P.vy, P.supply[c.mint_lp], c.amount,
                                    Precision)

\* "Calculate withdrawal amounts": the results the build can produce
WithdrawAmounts(P, c) ==
    IF P.supply[c.mint_lp] = c.amount
    THEN {CurveOk(P.vx, P.vy)}
    ELSE xy_withdraw_amounts_from_l(P.vx, P.vy, P.supply[c.mint_lp], c.amount,
                                    Precision)

\* "Check for slippage"
WithdrawSlippage(q, c) == q.x >= c.lim_x /\ q.y >= c.lim_y

\* Transfer { from: vault_x, to: user_x_ata, authority: config, amount: x }
WithdrawTransferX(P, c, x) ==
    IF c.user_x_ata # UserAta("X") \/ P.vx < x THEN [ok |-> FALSE, P |-> P]
    ELSE [ok |-> TRUE, P |-> [P EXCEPT !.vx = @ - x, !.user.x = @ + x]]

\* Transfer { from: vault_y, to: user_y_ata, authority: config, amount: y }
WithdrawTransferY(P, c, y) ==
    IF c.user_y_ata # UserAta("Y") \/ P.vy < y THEN [ok |-> FALSE, P |-> P]
    ELSE [ok |-> TRUE, P |-> [P EXCEPT !.vy = @ - y, !.user.y = @ + y]]

\* Burn { account: user_lp_ata, mint: mint_lp, authority: user, amount }
WithdrawBurn(P, c) ==
    IF P.user.lp[c.mint_lp] < c.amount THEN [ok |-> FALSE, P |-> P]
    ELSE [ok |-> TRUE,
          P |-> [P EXCEPT !.supply[c.mint_lp] = @ - c.amount,
                          !.user.lp[c.mint_lp] = @ - c.amount]]

\* the settlement that burns the shares before it releases the funds
WithdrawSettleBurnFirst(P, c, q) ==
    LET bu == WithdrawBurn(P, c)
        tx == WithdrawTransferX(bu.P, c, q.x)
        ty == WithdrawTransferY(tx.P, c, q.y)
    IN  IF q.kind = "panic" THEN AmmStop("panic", <<>>, P, 0, 0)
        ELSE IF q.kind # "ok" THEN AmmStop("curve", <<>>, P, 0, 0)
        ELSE IF ~WithdrawSlippage(q, c) THEN AmmStop("slippage", <<>>, P, q.x, q.y)
        ELSE IF ~bu.ok THEN AmmStop("burn", <<"Burn">>, P, q.x, q.y)
        ELSE IF ~tx.ok THEN AmmStop("transfer_x", <<"Burn", "TransferX">>, P, q.x, q.y)
        ELSE IF ~ty.ok
        THEN AmmStop("transfer_y", <<"Burn", "TransferX", "TransferY">>, P, q.x, q.y)
        ELSE AmmStop("done", <<"Burn", "TransferX", "TransferY">>, ty.P, q.x, q.y)

\* Withdraw::process from the computed amounts q on
WithdrawSettle(P, c, q) ==
    LET tx == WithdrawTransferX(P, c, q.x)
        ty == WithdrawTransferY(tx.P, c, q.y)
        bu == WithdrawBurn(ty.P, c)
    IN  IF q.kind = "panic" THEN AmmStop("panic", <<>>, P, 0, 0)
        ELSE IF q.kind # "ok" THEN AmmStop("curve", <<>>, P, 0, 0)
        ELSE IF ~WithdrawSlippage(q, c) THEN AmmStop("slippage", <<>>, P, q.x, q.y)
        ELSE IF ~tx.ok THEN AmmStop("transfer_x", <<"TransferX">>, P, q.x, q.y)
        ELSE IF ~ty.ok
        THEN AmmStop("transfer_y", <<"TransferX", "TransferY">>, P, q.x, q.y)
        ELSE IF ~bu.ok
        THEN AmmStop("burn", <<"TransferX", "TransferY", "Burn">>, P, q.x, q.y)
        ELSE AmmStop("done", <<"TransferX", "TransferY", "Burn">>, bu.P, q.x, q.y)

\* Withdraw with a state guard that forgets Uninitialized
WithdrawRunDisabledOnly(cfg, P, now, c) ==
    LET acc == AmmAccountsTryFrom(c)
        dat == WithdrawInstructionDataTryFrom(c, now)
        loa == ConfigLoad(c)
        der == VaultDerivations(cfg, c)
        des == TokenAccountLoad(c)
    IN  IF acc # "ok" THEN {AmmStop(acc, <<>>, P, 0, 0)}
        ELSE IF dat # "ok" THEN {AmmStop(dat, <<>>, P, 0, 0)}
        ELSE IF loa # "ok" THEN {AmmStop(loa, <<>>, P, 0, 0)}
        ELSE IF cfg.state = Disabled THEN {AmmStop("state", <<>>, P, 0, 0)}
        ELSE IF der # "ok" THEN {AmmStop(der, <<>>, P, 0, 0)}
        ELSE IF des # "ok" THEN {AmmStop(des, <<>>, P, 0, 0)}
        ELSE {WithdrawSettle(P, c, q) : q \in WithdrawAmounts(P, c)}

\* Withdraw::try_from followed by Withdraw::process: the possible outcomes
WithdrawRun(cfg, P, now, c) ==
    LET acc == AmmAccountsTryFrom(c)
        dat == WithdrawInstructionDataTryFrom(c, now)
        loa == ConfigLoad(c)
        der == VaultDerivations(cfg, c)
        des == TokenAccountLoad(c)
    IN  IF acc # "ok" THEN {AmmStop(acc, <<>>, P, 0, 0)}
        ELSE IF dat # "ok" THEN {AmmStop(dat, <<>>, P, 0, 0)}
        ELSE IF loa # "ok" THEN {AmmStop(loa, <<>>, P, 0, 0)}
        ELSE IF cfg.state = Disabled \/ cfg.state = Uninitialized
        THEN {AmmStop("state", <<>>, P, 0, 0)}
        ELSE IF der # "ok" THEN {AmmStop(der, <<>>, P, 0, 0)}
        ELSE IF des # "ok" THEN {AmmStop(des, <<>>, P, 0, 0)}
        ELSE {WithdrawSettle(P, c, q) : q \in WithdrawAmounts(P, c)}

Withdraw ==
    \E c \in AmmCalls :
        \E out \in WithdrawRun(config, Pool(vault_x, vault_y, supply, user),
                               clock, c) :
            /\ Commit(out)
            /\ last' = AmmLast("Withdraw", c, out)
            /\ UNCHANGED <<config, clock, accounts, escrowVars>>

\* the ledger's clock advances
Tick ==
    /\ clock < MaxClock
    /\ clock' = clock + 1
    /\ last' = [op |-> "Tick", amount |-> 0, lim_x |-> 0, lim_y |-> 0,
                mint_lp |-> "lp", step |-> "none", res |-> "none",
                cpis |-> <<>>, x |-> 0, y |-> 0]
    /\ UNCHANGED <<config, vault_x, vault_y, supply, user, accounts, escrowVars>>

(***************************************************************************)
(* Swap                                                                    *)
(***************************************************************************)
\* size_of::<SwapInstructionData>() = 1 + 8 + 8 + 8
SwapLEN == 25
\* fees are in 1/10_000ths
BasisPoints == 10000

\* the fees of the pools examined: none, and 0.3%
SwapFees == {0, 30}

SwapOk(d, w) == [kind |-> "ok", deposit |-> d, withdraw |-> w]
SwapErr(kind) == [kind |-> kind, deposit |-> 0, withdraw |-> 0]

\* ConstantProduct::init(x, y, l, fee, None): rejects an empty reserve and a
\* fee of 10_000 or more
ConstantProduct_init(x, y, l, fee) ==
    IF x = 0 \/ y = 0 \/ fee >= BasisPoints THEN "err" ELSE "ok"

\* ConstantProduct::swap(p, a, min) on reserves (x, y):
\*   a2 = a * (10_000 - fee) / 10_000
\*   new balance of the other side = x * y / (balance of side p + a2)
\*   withdraw = balance of the other side - its new balance
\* an error when the input is zero or withdraw < min
ConstantProduct_swap(x, y, fee, is_x, a, min) ==
    LET a2 == (a * (BasisPoints - fee)) \div BasisPoints
        side == IF is_x THEN x ELSE y
        other == IF is_x THEN y ELSE x
        w == other - (x * y) \div (side + a2)
    IN  IF a = 0 THEN SwapErr("err")
        ELSE IF w < min THEN SwapErr("err")
        ELSE SwapOk(a, w)

\* payloads and account lists a caller may hand to Swap: every combination
\* of direction, amount and min on the pool's own accounts, and for every
\* direction one call with each single thing wrong
BaseSwap(d, a, m) ==
    [n |-> 7, data_len |-> SwapLEN, is_x |-> d, amount |-> a, min |-> m,
     expiration |-> MaxClock, config |-> "config",
     vault_x |-> ATA(ConfigKey, "X"), vault_y |-> ATA(ConfigKey, "Y"),
     token_program |-> TokenProgram]

SwapCalls ==
    {BaseSwap(d, a, m) : d \in BOOLEAN, a \in 0..MaxSwap, m \in 0..MaxMin}
    \cup UNION {
        {[BaseSwap(d, MaxSwap, 1) EXCEPT !.n = 6],
         [BaseSwap(d, MaxSwap, 1) EXCEPT !.data_len = SwapLEN - 1],
         [BaseSwap(d, MaxSwap, 1) EXCEPT !.expiration = 0],
         [BaseSwap(d, MaxSwap, 1) EXCEPT !.expiration = 0, !.config = "other"],
         [BaseSwap(d, MaxSwap, 1) EXCEPT !.config = "other"],
         [BaseSwap(d, MaxSwap, 1) EXCEPT !.vault_x = ATA(Pk("user"), "X")],
         [BaseSwap(d, MaxSwap, 1) EXCEPT !.vault_y = ATA(Pk("user"), "Y")],
         [BaseSwap(d, MaxSwap, 1) EXCEPT
             !.token_program = Token2022Program,
             !.vault_x = VaultAddress(ConfigKey, Token2022Program, "X"),
             !.vault_y = VaultAddress(ConfigKey, Token2022Program, "Y")]}
        : d \in BOOLEAN }

\* SwapAccounts::try_from
SwapAccountsTryFrom(c) == IF c.n < 7 THEN "arity" ELSE "ok"

\* SwapInstructionData::try_from
SwapInstructionDataTryFrom(c, now) ==
    IF c.data_len # SwapLEN THEN "data_len"
    ELSE IF c.amount = 0 \/ c.min = 0 THEN "zero"
    ELSE IF now > c.expiration THEN "expired"
    ELSE "ok"

\* the curve built on the output reserve already reduced by the input amount
SwapAmountsDepleted(cfg, P, c) ==
    LET vx == IF c.is_x THEN P.vx ELSE P.vx - c.amount
        vy == IF c.is_x THEN P.vy - c.amount ELSE P.vy
    IN  IF vx < 0 \/ vy < 0 \/ ConstantProduct_init(vx, vy, vx, ConfigFee(cfg)) # "ok"
        THEN SwapErr("init")
        ELSE ConstantProduct_swap(vx, vy, ConfigFee(cfg), c.is_x, c.amount, c.min)

\* the engine's errors taken for a trade of nothing
SwapAmountsErrorsAsZero(cfg, P, c) ==
    IF ConstantProduct_init(P.vx, P.vy, P.vx, ConfigFee(cfg)) # "ok"
    THEN SwapOk(0, 0)
    ELSE LET r == ConstantProduct_swap(P.vx, P.vy, ConfigFee(cfg), c.is_x, c.amount,
                                       c.min)
         IN  IF r.kind = "ok" THEN r ELSE SwapOk(0, 0)

\* "Swap calculations": the curve on the two vault balances and the fee,
\* then the swap of amount on the side of is_x with min as the floor
SwapAmounts(cfg, P, c) ==
    IF ConstantProduct_init(P.vx, P.vy, P.vx, ConfigFee(cfg)) # "ok"
    THEN SwapErr("init")
    ELSE ConstantProduct_swap(P.vx, P.vy, ConfigFee(cfg), c.is_x, c.amount, c.min)

\* the first Transfer: deposit from the user's account of the side of is_x
\* into the vault of that side, authority user
SwapTransferIn(P, is_x, d) ==
    IF is_x
    THEN IF P.user.x < d THEN [ok |-> FALSE, P |-> P]
         ELSE [ok |-> TRUE, P |-> [P EXCEPT !.user.x = @ - d, !.vx = @ + d]]
    ELSE IF P.user.y < d THEN [ok |-> FALSE, P |-> P]
         ELSE [ok |-> TRUE, P |-> [P EXCEPT !.user.y = @ - d, !.vy = @ + d]]

\* the second leg paid out of the vault that has just received the first
SwapTransferOutSameSide(P, is_x, w) ==
    IF is_x
    THEN IF P.vx < w THEN [ok |-> FALSE, P |-> P]
         ELSE [ok |-> TRUE, P |-> [P EXCEPT !.vx = @ - w, !.user.x = @ + w]]
    ELSE IF P.vy < w THEN [ok |-> FALSE, P |-> P]
         ELSE [ok |-> TRUE, P |-> [P EXCEPT !.vy = @ - w, !.user.y = @ + w]]

\* the second Transfer: withdraw from the vault of the other side to the
\* user's account of the other side, authority config
SwapTransferOut(P, is_x, w) ==
    IF is_x
    THEN IF P.vy < w THEN [ok |-> FALSE, P |-> P]
         ELSE [ok |-> TRUE, P |-> [P EXCEPT !.vy = @ - w, !.user.y = @ + w]]
    ELSE IF P.vx < w THEN [ok |-> FALSE, P |-> P]
         ELSE [ok |-> TRUE, P |-> [P EXCEPT !.vx = @ - w, !.user.x = @ + w]]

\* the two transfers a Swap of direction is_x issues, in order
SwapLegs(is_x) ==
    IF is_x THEN <<"UserXToVaultX", "VaultYToUserY">>
    ELSE <<"UserYToVaultY", "VaultXToUserX">>

SwapStop(step, cpis, P, r) ==
    [step |-> step, res |-> AmmResultOf(step), cpis |-> cpis, P |-> P,
     deposit |-> r.deposit, withdraw |-> r.withdraw]

\* Swap::try_from followed by Swap::process
SwapRun(cfg, P, now, c) ==
    LET acc == SwapAccountsTryFrom(c)
        dat == SwapInstructionDataTryFrom(c, now)
        loa == ConfigLoad(c)
        der == VaultDerivations(cfg, c)
        des == TokenAccountLoad(c)
        r   == SwapAmounts(cfg, P, c)
        ti  == SwapTransferIn(P, c.is_x, r.deposit)
        to  == SwapTransferOut(ti.P, c.is_x, r.withdraw)
        legs == SwapLegs(c.is_x)
        none == SwapOk(0, 0)
    IN  IF acc # "ok" THEN SwapStop(acc, <<>>, P, none)
        ELSE IF dat # "ok" THEN SwapStop(dat, <<>>, P, none)
        ELSE IF loa # "ok" THEN SwapStop(loa, <<>>, P, none)
        ELSE IF cfg.state # Initialized THEN SwapStop("state", <<>>, P, none)
        ELSE IF der # "ok" THEN SwapStop(der, <<>>, P, none)
        ELSE IF des # "ok" THEN SwapStop(des, <<>>, P, none)
        ELSE IF r.kind = "init" THEN SwapStop("curve_init", <<>>, P, none)
        ELSE IF r.kind # "ok" THEN SwapStop("curve_swap", <<>>, P, none)
        ELSE IF r.deposit = 0 \/ r.withdraw = 0 THEN SwapStop("degenerate", <<>>, P, r)
        ELSE IF ~ti.ok THEN SwapStop("transfer_in", <<legs[1]>>, P, r)
        ELSE IF ~to.ok THEN SwapStop("transfer_out", legs, P, r)
        ELSE SwapStop("done", legs, to.P, r)

Swap ==
    \E c \in SwapCalls :
        \E out \in {SwapRun(config, Pool(vault_x, vault_y, supply, user),
                            clock, c)} :
            /\ Commit(out)
            /\ last' = [op |-> "Swap", is_x |-> c.is_x, amount |-> c.amount,
                        min |-> c.min, expiration |-> c.expiration,
                        config |-> c.config, vault_x |-> c.vault_x,
                        vault_y |-> c.vault_y,
                        token_program |-> c.token_program, step |-> out.step,
                        res |-> out.res, cpis |-> out.cpis,
                        deposit |-> out.deposit, withdraw |-> out.withdraw]
            /\ UNCHANGED <<config, clock, accounts, escrowVars>>

(***************************************************************************)
(* Config setters                                                          *)
(***************************************************************************)
\* the first fee that Config::set_fee rejects
FeeLimit == 10000

\* Config::set_state
set_state(cfg, state) ==
    IF state >= WithdrawOnly THEN [ok |-> FALSE, cfg |-> cfg]
    ELSE [ok |-> TRUE, cfg |-> [cfg EXCEPT !.state = state]]

\* the setter that lets a fee of exactly 10_000 through
set_fee_inclusive(cfg, fee) ==
    IF fee > FeeLimit THEN [ok |-> FALSE, cfg |-> cfg]
    ELSE [ok |-> TRUE, cfg |-> [cfg EXCEPT !.fee = u16_to_le_bytes(fee)]]

\* the setter that stores only the low byte of the fee
set_fee_low_byte(cfg, fee) ==
    IF fee >= FeeLimit THEN [ok |-> FALSE, cfg |-> cfg]
    ELSE [ok |-> TRUE, cfg |-> [cfg EXCEPT !.fee = <<fee % 256, 0>>]]

\* Config::set_fee
set_fee(cfg, fee) ==
    IF fee >= FeeLimit THEN [ok |-> FALSE, cfg |-> cfg]
    ELSE [ok |-> TRUE, cfg |-> [cfg EXCEPT !.fee = u16_to_le_bytes(fee)]]

\* Config::set_inner: the setters in the order of the code; an error of
\* set_state or set_fee returns at once, with what has been written so far
set_inner(cfg, seed, authority, mint_x, mint_y, fee, config_bump) ==
    LET s1 == set_state(cfg, Initialized)
        c4 == [s1.cfg EXCEPT !.seed = u64_to_le_bytes(seed),
                             !.authority = authority,
                             !.mint_x = mint_x,
                             !.mint_y = mint_y]
        s5 == set_fee(c4, fee)
    IN  IF ~s1.ok THEN [ok |-> FALSE, cfg |-> s1.cfg]
        ELSE IF ~s5.ok THEN [ok |-> FALSE, cfg |-> s5.cfg]
        ELSE [ok |-> TRUE, cfg |-> [s5.cfg EXCEPT !.config_bump = config_bump]]

\* Config::has_authority
has_authority(cfg) == IF cfg.authority # ZeroKey THEN cfg.authority ELSE "None"

\* the values a caller may hand to the setters
StateInputs == AmmStates \cup {WithdrawOnly + 1}
FeeInputs == {0, PoolFee, 300, FeeLimit - 1, FeeLimit, 65535}
AuthorityInputs == {ZeroKey, Pk("admin")}

\* the setters work on the record of a config account that exists
ConfigExists == accounts.config.data_len = ConfigLEN

SetterLast(op, arg, ok) ==
    [op |-> op, arg |-> arg, step |-> IF ok THEN "done" ELSE op,
     res |-> IF ok THEN "Ok" ELSE "InvalidAccountData", cpis |-> <<>>]

SetState ==
    /\ ConfigExists
    /\ \E st \in StateInputs :
         \E out \in {set_state(config, st)} :
            /\ config' = out.cfg
            /\ last' = SetterLast("set_state", st, out.ok)
    /\ UNCHANGED <<vault_x, vault_y, supply, user, clock, accounts, escrowVars>>

SetFee ==
    /\ ConfigExists
    /\ \E f \in FeeInputs :
         \E out \in {set_fee(config, f)} :
            /\ config' = out.cfg
            /\ last' = SetterLast("set_fee", f, out.ok)
    /\ UNCHANGED <<vault_x, vault_y, supply, user, clock, accounts, escrowVars>>

SetInner ==
    /\ ConfigExists
    /\ \E f \in {PoolFee, FeeLimit}, a \in AuthorityInputs :
         \E out \in {set_inner(config, PoolSeed, a, "X", "Y", f, ConfigBump)} :
            /\ config' = out.cfg
            /\ last' = SetterLast("set_inner", f, out.ok)
    /\ UNCHANGED <<vault_x, vault_y, supply, user, clock, accounts, escrowVars>>

(***************************************************************************)
(* Initialize                                                              *)
(***************************************************************************)
\* size_of::<InitializeInstructionData>() = 8 + 2 + 32 + 32 + 1 + 1 + 32
InitializeLEN == 108
\* size_of::<[u8; 32]>()
AuthorityLEN == 32

\* payloads and account lists a caller may hand to Initialize: the pool's
\* own seeds with every fee and authority in both wire shapes, and one call
\* with each single thing wrong
BaseInitialize(len, f, a) ==
    [n |-> 5, data_len |-> len, seed |-> PoolSeed, fee |-> f, mint_x |-> "X",
     mint_y |-> "Y", config_bump |-> ConfigBump, lp_bump |-> LpBump,
     authority |-> a]

InitializeCalls ==
    {BaseInitialize(len, f, a) :
        len \in {InitializeLEN, InitializeLEN - AuthorityLEN},
        f \in FeeInputs, a \in AuthorityInputs}
    \cup {[BaseInitialize(InitializeLEN, PoolFee, ZeroKey) EXCEPT !.n = 4],
          [BaseInitialize(InitializeLEN, PoolFee, ZeroKey) EXCEPT !.n = 6],
          BaseInitialize(InitializeLEN + 1, PoolFee, ZeroKey),
          BaseInitialize(InitializeLEN - 1, PoolFee, ZeroKey),
          BaseInitialize(InitializeLEN - AuthorityLEN - 1, PoolFee, ZeroKey),
          [BaseInitialize(InitializeLEN, PoolFee, ZeroKey) EXCEPT !.seed = PoolSeed + 1],
          [BaseInitialize(InitializeLEN, PoolFee, ZeroKey)
              EXCEPT !.config_bump = ConfigBump - 1],
          [BaseInitialize(InitializeLEN, PoolFee, ZeroKey)
              EXCEPT !.lp_bump = LpBump - 1]}

\* ProgramError of each place where Initialize can stop
InitializeResultOf(step) ==
    CASE step = "arity" -> "NotEnoughAccountKeys"
      [] step = "data_len" -> "InvalidInstructionData"
      [] step \in {"config_in_use", "mint_in_use"} -> "Custom(0)"
      [] step \in {"config_seeds", "mint_seeds"} -> "MissingRequiredSignature"
      [] step \in {"config_len", "set_inner"} -> "InvalidAccountData"
      [] step = "done" -> "Ok"
      [] OTHER -> "Custom"

\* InitializeAccounts::try_from
InitializeAccountsTryFrom(c) == IF c.n < 5 THEN "arity" ELSE "ok"

\* the parse that leaves the missing authority bytes as they are in memory
InitializeInstructionDataTryFromNoFill(c) ==
    IF c.data_len = InitializeLEN
    THEN [ok |-> TRUE, authority |-> c.authority]
    ELSE IF c.data_len = InitializeLEN - AuthorityLEN
    THEN [ok |-> TRUE, authority |-> c.authority]
    ELSE [ok |-> FALSE, authority |-> ZeroKey]

\* InitializeInstructionData::try_from: the authority of the payload, or 32
\* zero bytes when the payload ends before it
InitializeInstructionDataTryFrom(c) ==
    IF c.data_len = InitializeLEN
    THEN [ok |-> TRUE, authority |-> c.authority]
    ELSE IF c.data_len = InitializeLEN - AuthorityLEN
    THEN [ok |-> TRUE, authority |-> ZeroKey]
    ELSE [ok |-> FALSE, authority |-> ZeroKey]

\* CreateAccount { to: config, space: Config::LEN, owner: this program }
\* signed with ["config", seed, mint_x, mint_y, config_bump]
CreateConfigAccount(acc, c) ==
    IF acc.config.owner # SystemProgram \/ acc.config.data_len # 0
    THEN "config_in_use"
    ELSE IF <<c.seed, c.mint_x, c.mint_y, c.config_bump>>
              # <<PoolSeed, "X", "Y", ConfigBump>>
    THEN "config_seeds"
    ELSE "ok"

\* CreateAccount { to: mint_lp, space: 82, owner: token program }
\* signed with ["mint_lp", config, lp_bump]
CreateMintAccount(acc, c) ==
    IF acc.mint_lp.owner # SystemProgram \/ acc.mint_lp.data_len # 0
    THEN "mint_in_use"
    ELSE IF c.lp_bump # LpBump THEN "mint_seeds"
    ELSE "ok"

InitializeStop(step, cfg, acc) ==
    [step |-> step, res |-> InitializeResultOf(step), cfg |-> cfg, acc |-> acc]

\* Initialize::try_from followed by Initialize::process; every error leaves
\* the record and the accounts as they were
InitializeRun(cfg, acc, c) ==
    LET arity == InitializeAccountsTryFrom(c)
        dat == InitializeInstructionDataTryFrom(c)
        cc == CreateConfigAccount(acc, c)
        si == set_inner(ZeroConfig, c.seed, dat.authority, c.mint_x, c.mint_y,
                        c.fee, c.config_bump)
        cm == CreateMintAccount(acc, c)
    IN  IF arity # "ok" THEN InitializeStop(arity, cfg, acc)
        ELSE IF ~dat.ok THEN InitializeStop("data_len", cfg, acc)
        ELSE IF cc # "ok" THEN InitializeStop(cc, cfg, acc)
        ELSE IF ~si.ok THEN InitializeStop("set_inner", cfg, acc)
        ELSE IF cm # "ok" THEN InitializeStop(cm, cfg, acc)
        ELSE InitializeStop("done", si.cfg,
                 [config |-> [owner |-> AmmProgram, data_len |-> ConfigLEN],
                  mint_lp |-> [owner |-> TokenProgram, data_len |-> MintLEN,
                               decimals |-> MintDecimals,
                               mint_authority |-> ConfigKey]])

Initialize ==
    \E c \in InitializeCalls :
        \E out \in {InitializeRun(config, accounts, c)} :
            /\ config' = out.cfg
            /\ accounts' = out.acc
            /\ last' = [op |-> "Initialize", n |-> c.n, data_len |-> c.data_len,
                        seed |-> c.seed, fee |-> c.fee, mint_x |-> c.mint_x,
                        mint_y |-> c.mint_y, config_bump |-> c.config_bump,
                        lp_bump |-> c.lp_bump, authority |-> c.authority,
                        step |-> out.step, res |-> out.res, cpis |-> <<>>]
            /\ UNCHANGED <<vault_x, vault_y, supply, user, clock, escrowVars>>

(***************************************************************************)
(* Specifications                                                          *)
(***************************************************************************)
AmmIdle ==
    /\ config = InitConfig
    /\ vault_x = 0
    /\ vault_y = 0
    /\ supply = [m \in LpMints |-> 0]
    /\ user = [x |-> 0, y |-> 0, lp |-> [m \in LpMints |-> 0]]
    /\ clock = 0
    /\ accounts = PoolAccounts

EscrowIdle ==
    /\ escrows = InitEscrows
    /\ tok = [a \in TokAddrs |-> NoTok]
    /\ lamports = [k \in Makers |-> 0]

\* the pool after Initialize; tokens sent to a vault before the first
\* Deposit are already there
InitAmm ==
    /\ EscrowIdle
    /\ config = InitConfig
    /\ \E d \in 0..MaxDonation : vault_x = d /\ vault_y = d
    /\ supply = [m \in LpMints |-> IF m = "own" THEN OwnSupply ELSE 0]
    /\ user = [x |-> UserTokens, y |-> UserTokens,
               lp |-> [m \in LpMints |-> IF m = "own" THEN OwnSupply ELSE 0]]
    /\ clock = 0
    /\ accounts = PoolAccounts
    /\ last = [op |-> "none", amount |-> 0, lim_x |-> 0, lim_y |-> 0,
               mint_lp |-> "lp", step |-> "none", res |-> "none",
               cpis |-> <<>>, x |-> 0, y |-> 0]

NextAmm == Deposit \/ Withdraw \/ Tick

SpecAmm == InitAmm /\ [][NextAmm]_vars

\* a pool after Initialize with either fee, holding what Deposits or plain
\* token transfers have put into its vaults
InitSwap ==
    /\ EscrowIdle
    /\ \E f \in SwapFees : config = [InitConfig EXCEPT !.fee = u16_to_le_bytes(f)]
    /\ vault_x \in 0..MaxPoolX
    /\ vault_y \in 0..MaxPoolY
    /\ supply = [m \in LpMints |-> 0]
    /\ user = [x |-> SwapTokens, y |-> SwapTokens, lp |-> [m \in LpMints |-> 0]]
    /\ clock = 0
    /\ accounts = PoolAccounts
    /\ last = [op |-> "none", step |-> "none", res |-> "none", cpis |-> <<>>]

NextSwap == Swap \/ Tick

SpecSwap == InitSwap /\ [][NextSwap]_vars

\* a pool holding liquidity whose Config record carries any of the declared
\* states: Config::load hands the stored state byte to the handlers as it is
InitGate ==
    /\ EscrowIdle
    /\ \E st \in AmmStates : config = [InitConfig EXCEPT !.state = st]
    /\ vault_x = GateReserve
    /\ vault_y = GateReserve
    /\ supply = [m \in LpMints |-> IF m = "own" THEN OwnSupply ELSE GateReserve]
    /\ user = [x |-> GateTokens, y |-> GateTokens,
               lp |-> [m \in LpMints |-> IF m = "own" THEN OwnSupply
                                         ELSE GateReserve]]
    /\ clock = 0
    /\ accounts = PoolAccounts
    /\ last = [op |-> "none", step |-> "none", res |-> "none", cpis |-> <<>>]

NextGate == Deposit \/ Withdraw \/ Swap \/ Tick

SpecGate == InitGate /\ [][NextGate]_vars

\* the ledger before Initialize: no config account, no liquidity mint
InitAdmin ==
    /\ EscrowIdle
    /\ config = ZeroConfig
    /\ vault_x = 0
    /\ vault_y = 0
    /\ supply = [m \in LpMints |-> 0]
    /\ user = [x |-> PoolTokens, y |-> PoolTokens, lp |-> [m \in LpMints |-> 0]]
    /\ clock = 0
    /\ accounts = NoAccounts
    /\ last = [op |-> "none", step |-> "none", res |-> "none", cpis |-> <<>>]

\* Initialize and the setters of the Config record
NextAdmin == Initialize \/ SetInner \/ SetState \/ SetFee

SpecAdmin == InitAdmin /\ [][NextAdmin]_vars

\* Initialize, the setters and the three handlers that work on the pool
NextPool ==
    Initialize \/ SetInner \/ SetState \/ SetFee \/ Deposit \/ Withdraw \/ Swap

SpecPool == InitAdmin /\ [][NextPool]_vars

\* the two programs share no account: the escrow program is run on the
\* ledgers that hold escrow vaults, the pool's handlers on the ledger before
\* Initialize where no token account of an escrow or a maker exists
EscrowLedger == \E a \in TokAddrs : tok[a].exists

NextLedger ==
    \/ EscrowLedger /\ Refund
    \/ ~EscrowLedger /\ Initialize
    \/ ~EscrowLedger /\ Deposit
    \/ ~EscrowLedger /\ Withdraw
    \/ ~EscrowLedger /\ Swap

InitEscrow ==
    /\ AmmIdle
    /\ escrows = InitEscrows
    /\ \E v1 \in 0..MaxVault, hasAta \in BOOLEAN :
         tok = [a \in TokAddrs |->
                  CASE a = ATA(Key("e1"), "A") -> Tok(v1)
                    [] a = ATA(Key("e2"), "A") -> Tok(1)
                    [] a = ATA(Key("k1"), "A") -> Tok(1)
                    [] a = ATA(Key("e1"), "B") -> Tok(1)
                    [] a = ATA(Pk("m1"), "A") -> IF hasAta THEN Tok(0) ELSE NoTok
                    [] a = ATA(Pk("m2"), "A") -> Tok(0)
                    [] OTHER -> NoTok]
    /\ \E l1 \in {0, AtaRent} : lamports = [k \in Makers |-> IF k = "m1" THEN l1 ELSE AtaRent]
    /\ last = [op |-> "none", maker |-> "m1", escrow |-> "e1", mint_a |-> "A",
               step |-> "none", res |-> "none", cpis |-> <<>>, amount |-> 0]

NextEscrow == Refund

SpecEscrow == InitEscrow /\ [][NextEscrow]_vars

\* the ledger before Initialize, or a ledger of open escrows on which the
\* maker m1 can pay for a token account and does not have one yet
InitLedger ==
    \/ InitAdmin
    \/ /\ InitEscrow
       /\ tok[ATA(Key("e1"), "A")].amount = MaxVault
       /\ ~tok[ATA(Pk("m1"), "A")].exists
       /\ lamports["m1"] = AtaRent

SpecLedger == InitLedger /\ [][NextLedger]_vars

(***************************************************************************)
(* Properties of Refund                                                    *)
(***************************************************************************)
\* the guards of Refund that come before the derivation of the escrow address
EarlyRefundSteps ==
    {"arity", "signer", "escrow_owner", "mint_owner", "vault_owner",
     "vault_addr", "ata_init", "load"}

\* the address derived from the record stored in account e
StoredAddress(E, e) ==
    create_program_address(E[e].rec.maker, E[e].rec.seed, E[e].rec.bump)

\* owned by this program, of record length, at the address its record derives
Genuine(E, e) ==
    /\ E[e].owner = EscrowProgram
    /\ E[e].data_len = EscrowLEN
    /\ StoredAddress(E, e).ok
    /\ StoredAddress(E, e).key = Key(e)

\* owned by this program, of record length, but not at that address
Spoofed(E, e) ==
    /\ E[e].owner = EscrowProgram
    /\ E[e].data_len = EscrowLEN
    /\ ~(StoredAddress(E, e).ok /\ StoredAddress(E, e).key = Key(e))

NoTokenMoved ==
    /\ \A i \in 1..Len(last'.cpis) : last'.cpis[i] \notin {"Transfer", "CloseAccount"}
    /\ UNCHANGED escrowVars

C2_Claim ==
    [][ (/\ last'.op = "Refund"
         /\ Genuine(escrows, last'.escrow)
         /\ Pk(last'.maker) # escrows[last'.escrow].rec.maker
         /\ last'.step \notin EarlyRefundSteps)
        => (last'.res = "InvalidAccountData" /\ NoTokenMoved) ]_vars

\* C3: a successful Refund issues the transfer, the closing of the vault and
\* the closing of the escrow in this order; the transfer moves the vault's
\* balance as it is when Refund runs to the maker's token account; the vault
\* ends closed with no token; the escrow ends zeroed, without lamports and
\* owned by the system program, its lamports credited to the maker.
C3_SuccessfulRefund ==
    [][ (last'.op = "Refund" /\ last'.res = "Ok")
        => LET e == last'.escrow
               k == last'.maker
               v == ATA(Key(e), last'.mint_a)
               a == ATA(Pk(k), last'.mint_a)
               created == IF tok[a].exists THEN 0 ELSE AtaRent
           IN  /\ last'.cpis = <<"CreateIdempotent", "Transfer", "CloseAccount",
                                 "ProgramAccountClose">>
               /\ last'.amount = tok[v].amount
               /\ tok'[a].exists
               /\ tok'[a].amount = tok[a].amount + tok[v].amount
               /\ tok'[v] = NoTok
               /\ \A t \in TokAddrs \ {a, v} : tok'[t] = tok[t]
               /\ escrows'[e].rec = ZeroRecord
               /\ escrows'[e].lamports = 0
               /\ escrows'[e].owner = SystemProgram
               /\ lamports'[k] = lamports[k] - created + tok[v].lamports
                                   + escrows[e].lamports ]_vars

C3_Witness ==
    /\ last.op = "Refund"
    /\ last.res = "Ok"
    /\ last.amount > 0
    /\ tok[ATA(Pk(last.maker), last.mint_a)].amount >= last.amount

\* C4: a Refund succeeds only on an account this program owns and leaves it
\* owned by the system program; an account so closed stays closed, and no
\* later Refund naming it succeeds.
Closed(E, e) == E[e].owner = SystemProgram

C4_ClosedIsTerminal ==
    [][ /\ (last'.op = "Refund" /\ last'.res = "Ok")
            => (~Closed(escrows, last'.escrow) /\ Closed(escrows', last'.escrow))
        /\ \A e \in EscrowAccts :
            Closed(escrows, e)
              => /\ escrows'[e] = escrows[e]
                 /\ ~(last'.op = "Refund" /\ last'.escrow = e /\ last'.res = "Ok")
      ]_vars

C4_Witness ==
    /\ last.op = "Refund"
    /\ Closed(escrows, last.escrow)
    /\ last.step = "escrow_owner"
    /\ last.res = "InvalidAccountOwner"

(***************************************************************************)
(* Properties of Deposit and Withdraw                                      *)
(***************************************************************************)
\* the guards of Deposit and Withdraw that come before the amounts
EarlyAmmSteps ==
    {"arity", "data_len", "zero", "expired", "config_len", "config_owner",
     "state", "vault_x", "vault_y", "vault_data"}

PoolNow == Pool(vault_x, vault_y, supply, user)

\* the payload fields of the instruction that has just run
Payload == [amount |-> last'.amount, lim_x |-> last'.lim_x,
            lim_y |-> last'.lim_y, mint_lp |-> last'.mint_lp]

\* C5: a successful Withdraw whose amount is the whole supply of the
\* liquidity mint releases exactly the balances of the two vaults, and
\* leaves both vaults and the supply at 0.
C5_TotalExit ==
    [][ (/\ last'.op = "Withdraw"
         /\ last'.res = "Ok"
         /\ last'.amount = supply[last'.mint_lp])
        => /\ last'.x = vault_x
           /\ last'.y = vault_y
           /\ user'.x = user.x + vault_x
           /\ user'.y = user.y + vault_y
           /\ vault_x' = 0
           /\ vault_y' = 0
           /\ supply'[last'.mint_lp] = 0 ]_vars

C5_Witness ==
    /\ last.op = "Withdraw"
    /\ last.res = "Ok"
    /\ last.mint_lp = "lp"
    /\ supply["lp"] = 0
    /\ last.x > 0
    /\ last.y > 0

\* C6 as stated: a successful Deposit of amount shares directly followed by
\* a successful Withdraw of the same amount of the same mint releases no
\* more of either token than the Deposit took.
C6_Claim ==
    [][ (/\ last.op = "Deposit"
         /\ last.res = "Ok"
         /\ last'.op = "Withdraw"
         /\ last'.res = "Ok"
         /\ last'.mint_lp = last.mint_lp
         /\ last'.amount = last.amount)
        => (last'.x <= last.x /\ last'.y <= last.y) ]_vars

\* C7 as stated: a successful Withdraw of less than the supply releases of
\* each token less than one unit more than reserve * amount / supply; and a
\* Withdraw whose amounts fall below min_x or min_y fails with
\* InvalidArgument and moves nothing.
C7_Claim ==
    [][ /\ (/\ last'.op = "Withdraw"
            /\ last'.res = "Ok"
            /\ last'.amount < supply[last'.mint_lp])
           => /\ last'.x * supply[last'.mint_lp]
                   < vault_x * last'.amount + supply[last'.mint_lp]
              /\ last'.y * supply[last'.mint_lp]
                   < vault_y * last'.amount + supply[last'.mint_lp]
        /\ (/\ last'.op = "Withdraw"
            /\ last'.step \notin EarlyAmmSteps \cup {"curve", "panic"}
            /\ (last'.x < last'.lim_x \/ last'.y < last'.lim_y))
           => /\ last'.res = "InvalidArgument"
              /\ last'.cpis = <<>>
              /\ UNCHANGED ammVars ]_vars

\* C8: a successful Deposit into a pool whose vaults are both non-empty
\* takes x and y with x * reserve_y and y * reserve_x less than one unit of
\* either token apart, and mints exactly amount shares to the user.
C8_DepositRatio ==
    [][ (/\ last'.op = "Deposit"
         /\ last'.res = "Ok"
         /\ vault_x > 0
         /\ vault_y > 0)
        => /\ vault_x' = vault_x + last'.x
           /\ vault_y' = vault_y + last'.y
           /\ last'.x * vault_y - last'.y * vault_x < vault_x
           /\ last'.y * vault_x - last'.x * vault_y < vault_y
           /\ supply'[last'.mint_lp] = supply[last'.mint_lp] + last'.amount
           /\ user'.lp[last'.mint_lp] = user.lp[last'.mint_lp] + last'.amount
      ]_vars

C8_Witness ==
    /\ last.op = "Deposit"
    /\ last.res = "Ok"
    /\ last.x > 0
    /\ last.y > last.x
    /\ vault_x > last.x
    /\ vault_y > last.y

\* C9: a successful Deposit takes exactly (max_x, max_y) when the share
\* supply and both vaults are 0, and otherwise exactly what the curve engine
\* returns for (reserve_x, reserve_y, supply, amount).
C9_QuantityRule ==
    [][ (last'.op = "Deposit" /\ last'.res = "Ok")
        => LET q == xy_deposit_amounts_from_l(vault_x, vault_y,
                        supply[last'.mint_lp], last'.amount, Precision)
           IN  IF supply[last'.mint_lp] = 0 /\ vault_x = 0 /\ vault_y = 0
               THEN /\ vault_x' = vault_x + last'.lim_x
                    /\ vault_y' = vault_y + last'.lim_y
               ELSE /\ q.kind = "ok"
                    /\ vault_x' = vault_x + q.x
                    /\ vault_y' = vault_y + q.y ]_vars

C9_Witness ==
    /\ last.op = "Deposit"
    /\ last.res = "Ok"
    /\ supply[last.mint_lp] > last.amount
    /\ last.x > 0
    /\ last.x < last.lim_x

\* C10: a Deposit that reaches the amounts fails with InvalidArgument,
\* before any transfer, when the engine reports an error or x > max_x or
\* y > max_y; a successful Deposit adds exactly x <= max_x and y <= max_y to
\* the vaults, takes them from the user and adds exactly amount shares to
\* the user's share account.
C10_DepositCaps ==
    [][ /\ (/\ last'.op = "Deposit"
            /\ last'.step \notin EarlyAmmSteps
            /\ LET q == DepositAmounts(PoolNow, Payload)
               IN  q.kind # "ok" \/ q.x > last'.lim_x \/ q.y > last'.lim_y)
           => /\ last'.res = "InvalidArgument"
              /\ last'.cpis = <<>>
              /\ UNCHANGED ammVars
        /\ (last'.op = "Deposit" /\ last'.res = "Ok")
           => /\ last'.x <= last'.lim_x
              /\ last'.y <= last'.lim_y
              /\ vault_x' = vault_x + last'.x
              /\ vault_y' = vault_y + last'.y
              /\ user'.x = user.x - last'.x
              /\ user'.y = user.y - last'.y
              /\ user'.lp[last'.mint_lp] = user.lp[last'.mint_lp] + last'.amount
      ]_vars

C10_Witness ==
    /\ last.op = "Deposit"
    /\ last.step = "slippage"
    /\ last.res = "InvalidArgument"
    /\ last.y > last.lim_y

(***************************************************************************)
(* Properties of Swap                                                      *)
(***************************************************************************)
\* C11 as stated: a successful Swap takes exactly the requested amount; when
\* the fee is positive it pays less than the no-fee constant-product output
\* reserve_out * amount / (reserve_in + amount); and it never lowers the
\* product vault_x * vault_y.
C11_Claim ==
    [][ (last'.op = "Swap" /\ last'.res = "Ok")
        => LET side == IF last'.is_x THEN vault_x ELSE vault_y
               other == IF last'.is_x THEN vault_y ELSE vault_x
           IN  /\ last'.deposit = last'.amount
               /\ ConfigFee(config) > 0
                    => last'.withdraw * (side + last'.amount)
                         < other * last'.amount
               /\ vault_x' * vault_y' >= vault_x * vault_y ]_vars

EngineAnswer ==
    IF ConstantProduct_init(vault_x, vault_y, vault_x, ConfigFee(config)) # "ok"
    THEN SwapErr("init")
    ELSE ConstantProduct_swap(vault_x, vault_y, ConfigFee(config), last'.is_x,
                              last'.amount, last'.min)

\* C13 as stated: a Swap that reaches the swap calculation fails with
\* InvalidArgument and transfers nothing whenever the engine reports an
\* error or a zero deposit or withdraw.
C13_Original ==
    [][ (/\ last'.op = "Swap"
         /\ last'.step \notin EarlyAmmSteps
         /\ (\/ EngineAnswer.kind # "ok"
             \/ EngineAnswer.deposit = 0
             \/ EngineAnswer.withdraw = 0))
        => /\ last'.res = "InvalidArgument"
           /\ last'.cpis = <<>>
           /\ UNCHANGED ammVars ]_vars

\* C13 amended: a Swap that reaches the swap calculation fails and transfers
\* nothing whenever the engine reports an error (an output below min
\* included) or a zero deposit or withdraw; the error is Custom(1) for an
\* engine error and InvalidArgument for a zero deposit or withdraw; every
\* successful Swap has withdraw >= min, deposit > 0 and withdraw > 0.
C13_SwapRejects ==
    [][ (last'.op = "Swap" /\ last'.step \notin EarlyAmmSteps)
        => /\ EngineAnswer.kind # "ok"
                => /\ last'.res = "Custom(1)"
                   /\ last'.cpis = <<>>
                   /\ UNCHANGED ammVars
           /\ (/\ EngineAnswer.kind = "ok"
               /\ (EngineAnswer.deposit = 0 \/ EngineAnswer.withdraw = 0))
                => /\ last'.res = "InvalidArgument"
                   /\ last'.cpis = <<>>
                   /\ UNCHANGED ammVars
           /\ last'.res = "Ok"
                => /\ last'.withdraw >= last'.min
                   /\ last'.deposit > 0
                   /\ last'.withdraw > 0 ]_vars

C13_Witness ==
    /\ last.op = "Swap"
    /\ last.step = "curve_swap"
    /\ last.res = "Custom(1)"
    /\ vault_x > 0
    /\ vault_y > 0
    /\ ConstantProduct_swap(vault_x, vault_y, ConfigFee(config), last.is_x,
                            last.amount, 1).kind = "ok"

\* C14: a successful Swap issues the input transfer and then the output
\* transfer; with is_x, deposit moves from the user's X balance into vault_x
\* and withdraw from vault_y to the user's Y balance; without is_x, deposit
\* moves from the user's Y balance into vault_y and withdraw from vault_x to
\* the user's X balance; nothing else changes.
C14_OppositeLegs ==
    [][ (last'.op = "Swap" /\ last'.res = "Ok")
        => /\ IF last'.is_x
              THEN /\ last'.cpis = <<"UserXToVaultX", "VaultYToUserY">>
                   /\ vault_x' = vault_x + last'.deposit
                   /\ user'.x = user.x - last'.deposit
                   /\ vault_y' = vault_y - last'.withdraw
                   /\ user'.y = user.y + last'.withdraw
              ELSE /\ last'.cpis = <<"UserYToVaultY", "VaultXToUserX">>
                   /\ vault_y' = vault_y + last'.deposit
                   /\ user'.y = user.y - last'.deposit
                   /\ vault_x' = vault_x - last'.withdraw
                   /\ user'.x = user.x + last'.withdraw
           /\ user'.lp = user.lp
           /\ UNCHANGED <<supply, config, clock, accounts, escrowVars>> ]_vars

C14_Witness ==
    /\ last.op = "Swap"
    /\ last.res = "Ok"
    /\ ~last.is_x
    /\ last.deposit > 0
    /\ last.withdraw > 0
    /\ vault_y > last.deposit

(***************************************************************************)
(* State gating and expiration                                             *)
(***************************************************************************)
\* the guards of Deposit, Withdraw and Swap that come before the state guard
PreStateSteps ==
    {"arity", "data_len", "zero", "expired", "config_len", "config_owner"}

StateRejected ==
    /\ last'.step = "state"
    /\ last'.res = "InvalidAccountData"
    /\ last'.cpis = <<>>
    /\ UNCHANGED ammVars

\* C15: a Deposit or Swap that reaches the state guard passes it when
\* config.state is Initialized and otherwise fails there with
\* InvalidAccountData; a Withdraw that reaches it fails there with
\* InvalidAccountData when the state is Disabled or Uninitialized and passes
\* it when the state is Initialized or WithdrawOnly; a rejection issues no
\* transfer, mint or burn and changes nothing.
C15_StateGating ==
    [][ /\ (last'.op \in {"Deposit", "Swap"} /\ last'.step \notin PreStateSteps)
           => IF config.state = Initialized
              THEN last'.step # "state"
              ELSE StateRejected
        /\ (last'.op = "Withdraw" /\ last'.step \notin PreStateSteps)
           => IF config.state \in {Disabled, Uninitialized}
              THEN StateRejected
              ELSE last'.step # "state" ]_vars

C15_Witness ==
    /\ last.op = "Withdraw"
    /\ last.res = "Ok"
    /\ config.state = WithdrawOnly
    /\ last.x > 0
    /\ last.y > 0

\* C20: a Deposit, Withdraw or Swap whose account list is long enough and
\* whose payload has an expiration below the ledger's time fails at the
\* payload parse with InvalidInstructionData, whatever its amounts and
\* whatever account it names as config, and changes nothing; a payload whose
\* expiration is the ledger's time or later is not stopped for expiry.
C20_Expiration ==
    [][ (last'.op \in {"Deposit", "Withdraw", "Swap"} /\ last'.step # "arity")
        => /\ clock > last'.expiration
                => /\ last'.res = "InvalidInstructionData"
                   /\ last'.step \in {"data_len", "zero", "expired"}
                   /\ last'.cpis = <<>>
                   /\ UNCHANGED ammVars
           /\ clock <= last'.expiration => last'.step # "expired" ]_vars

C20_Witness ==
    /\ last.op = "Deposit"
    /\ last.step = "expired"
    /\ last.res = "InvalidInstructionData"
    /\ last.config = "other"
    /\ last.amount > 0
    /\ clock > last.expiration

(***************************************************************************)
(* Properties of the Config record and of Initialize                       *)
(***************************************************************************)
\* C16 as stated: Config::set_state called with any of the four declared
\* states, WithdrawOnly included, succeeds and leaves the record in that
\* state.
C16_Claim ==
    [][ (last'.op = "set_state" /\ last'.arg \in AmmStates)
        => (last'.res = "Ok" /\ config'.state = last'.arg) ]_vars

\* C17: in every state reached by Initialize, set_inner, set_state, set_fee,
\* Deposit, Withdraw and Swap the Config record has one of the four declared
\* states and a fee below 10_000.
C17_ConfigInvariant ==
    /\ config.state \in AmmStates
    /\ ConfigFee(config) < FeeLimit

C17_Witness ==
    /\ last.op = "set_fee"
    /\ last.arg = FeeLimit
    /\ last.res = "InvalidAccountData"
    /\ config.state = Disabled
    /\ ConfigFee(config) = FeeLimit - 1
    /\ supply["lp"] > 0

\* the steps of Initialize that come before the record is populated
EarlyInitializeSteps == {"arity", "data_len", "config_in_use", "config_seeds"}

\* C18: an Initialize that reaches set_inner fails there with
\* InvalidAccountData, changing nothing, when fee >= 10_000; when
\* fee < 10_000 it is not stopped there, it succeeds unless the creation of
\* the liquidity mint fails, and after its success the fee read from the
\* record is the fee of the payload.
C18_FeeBoundary ==
    [][ (last'.op = "Initialize" /\ last'.step \notin EarlyInitializeSteps)
        => IF last'.fee >= FeeLimit
           THEN /\ last'.step = "set_inner"
                /\ last'.res = "InvalidAccountData"
                /\ UNCHANGED ammVars
           ELSE /\ last'.step # "set_inner"
                /\ last'.step \notin {"mint_in_use", "mint_seeds"}
                     => /\ last'.res = "Ok"
                        /\ ConfigFee(config') = last'.fee ]_vars

C18_Witness ==
    /\ last.op = "Initialize"
    /\ last.res = "Ok"
    /\ last.fee = FeeLimit - 1
    /\ ConfigFee(config) = FeeLimit - 1

\* C19: after a successful Initialize the record has state Initialized and
\* the seed, mints, fee and config bump of the payload; a payload that ends
\* before the authority stores the all-zero authority and has_authority
\* reports none; a payload with an authority stores it unchanged; a payload
\* of any other length fails with InvalidInstructionData and changes
\* nothing; the liquidity mint is an account of the token program with 6
\* decimals and the config account as its mint authority.
C19_InitializeRecord ==
    [][ /\ (last'.op = "Initialize" /\ last'.res = "Ok")
           => /\ config'.state = Initialized
              /\ ConfigSeed(config') = last'.seed
              /\ config'.mint_x = last'.mint_x
              /\ config'.mint_y = last'.mint_y
              /\ ConfigFee(config') = last'.fee
              /\ config'.config_bump = last'.config_bump
              /\ last'.data_len = InitializeLEN - AuthorityLEN
                   => /\ config'.authority = ZeroKey
                      /\ has_authority(config') = "None"
              /\ last'.data_len = InitializeLEN
                   => /\ config'.authority = last'.authority
                      /\ last'.authority # ZeroKey
                           => has_authority(config') = last'.authority
              /\ accounts'.config.owner = AmmProgram
              /\ accounts'.mint_lp.owner = TokenProgram
              /\ accounts'.mint_lp.decimals = 6
              /\ accounts'.mint_lp.mint_authority = ConfigKey
        /\ (/\ last'.op = "Initialize"
            /\ last'.step # "arity"
            /\ last'.data_len \notin {InitializeLEN, InitializeLEN - AuthorityLEN})
           => /\ last'.res = "InvalidInstructionData"
              /\ UNCHANGED ammVars ]_vars

C19_Witness ==
    /\ last.op = "Initialize"
    /\ last.res = "Ok"
    /\ last.data_len = InitializeLEN - AuthorityLEN
    /\ last.authority # ZeroKey
    /\ config.authority = ZeroKey
    /\ accounts.mint_lp.mint_authority = ConfigKey

(***************************************************************************)
(* Zero amounts, vault addresses, order of effects                         *)
(***************************************************************************)
\* the instruction stopped at the zero check of the payload parse
ZeroRejected ==
    /\ last'.step = "zero"
    /\ last'.res = "InvalidInstructionData"
    /\ last'.cpis = <<>>
    /\ UNCHANGED ammVars

\* C21: a Deposit whose payload has the right length stops at the zero check
\* with InvalidInstructionData exactly when amount, max_x or max_y is 0; a
\* Withdraw exactly when amount is 0, so min_x = 0 and min_y = 0 pass; a Swap
\* exactly when amount or min is 0; and an instruction whose requested
\* amount is 0 fails without any transfer, mint or burn.
C21_ZeroAmounts ==
    [][ /\ (last'.op = "Deposit" /\ last'.step \notin {"arity", "data_len"})
           => IF last'.amount = 0 \/ last'.lim_x = 0 \/ last'.lim_y = 0
              THEN ZeroRejected
              ELSE last'.step # "zero"
        /\ (last'.op = "Withdraw" /\ last'.step \notin {"arity", "data_len"})
           => IF last'.amount = 0 THEN ZeroRejected ELSE last'.step # "zero"
        /\ (last'.op = "Swap" /\ last'.step \notin {"arity", "data_len"})
           => IF last'.amount = 0 \/ last'.min = 0
              THEN ZeroRejected
              ELSE last'.step # "zero"
        /\ (last'.op \in {"Deposit", "Withdraw", "Swap"} /\ last'.amount = 0)
           => /\ last'.res # "Ok"
              /\ last'.cpis = <<>>
              /\ UNCHANGED ammVars ]_vars

C21_Witness ==
    /\ last.op = "Withdraw"
    /\ last.res = "Ok"
    /\ last.amount > 0
    /\ last.lim_x = 0
    /\ last.lim_y = 0
    /\ last.cpis # <<>>

C23_Claim ==
    [][ (last'.op = "Refund" /\ last'.cpis # <<>>)
        => RefundVerify(escrows, [maker |-> last'.maker,
                                  escrow |-> last'.escrow]) = "ok" ]_vars

C25_Claim ==
    [][ last'.op = "Refund"
        => IF last'.n = 7
           THEN last'.step # "arity"
           ELSE last'.step = "arity" /\ last'.res = "NotEnoughAccountKeys" ]_vars

(***************************************************************************)
(* Shares, mints and the record                                            *)
(***************************************************************************)
\* C26: a successful Withdraw issues the transfer of x out of vault_x, then
\* the transfer of y out of vault_y, then the burn; the burn takes exactly
\* amount shares of the named mint out of the user's share account and out
\* of the supply; a Withdraw that stops at a failing transfer has issued no
\* burn.
C26_BurnLast ==
    [][ last'.op = "Withdraw"
        => /\ last'.res = "Ok"
              => /\ last'.cpis = <<"TransferX", "TransferY", "Burn">>
                 /\ vault_x' = vault_x - last'.x
                 /\ user'.x = user.x + last'.x
                 /\ vault_y' = vault_y - last'.y
                 /\ user'.y = user.y + last'.y
                 /\ supply' = [supply EXCEPT ![last'.mint_lp] = @ - last'.amount]
                 /\ user'.lp = [user.lp EXCEPT ![last'.mint_lp] = @ - last'.amount]
           /\ last'.step \in {"transfer_x", "transfer_y"}
              => /\ \A i \in 1..Len(last'.cpis) : last'.cpis[i] # "Burn"
                 /\ supply' = supply
                 /\ user' = user
           /\ \A i \in 1..Len(last'.cpis) :
                last'.cpis[i] = "Burn"
                  => i = 3 /\ last'.cpis[1] = "TransferX" /\ last'.cpis[2] = "TransferY"
      ]_vars

C26_Witness ==
    /\ last.op = "Withdraw"
    /\ last.step = "transfer_y"
    /\ last.cpis = <<"TransferX", "TransferY">>
    /\ last.x > 0
    /\ last.y > 0
    /\ user.lp[last.mint_lp] >= last.amount

\* C27 as stated: a Withdraw or Deposit whose mint_lp account is not the
\* liquidity mint created by Initialize for this config fails and moves
\* nothing.
C27_Claim ==
    [][ (last'.op \in {"Withdraw", "Deposit"} /\ last'.mint_lp # "lp")
        => /\ last'.res # "Ok"
           /\ UNCHANGED ammVars ]_vars

\* the share supply of the pool's liquidity mint is 0 exactly when both
\* vaults are empty
Backed(vx, vy, sup) == (sup["lp"] = 0) <=> (vx = 0 /\ vy = 0)

\* C28 as stated: a successful Deposit, Withdraw or Swap on the pool's own
\* liquidity mint that starts with the shares backed (supply 0 exactly when
\* both vaults hold 0) ends with the shares backed.
C28_Claim ==
    [][ (/\ last'.op \in {"Deposit", "Withdraw"} => last'.mint_lp = "lp"
         /\ last'.op \in {"Deposit", "Withdraw", "Swap"}
         /\ last'.res = "Ok"
         /\ Backed(vault_x, vault_y, supply))
        => Backed(vault_x', vault_y', supply') ]_vars

\* C29 as stated: a Refund naming as mint_a a mint other than the one
\* recorded in the escrow record fails.
C29_Claim ==
    [][ (/\ last'.op = "Refund"
         /\ last'.step \notin {"arity", "signer", "escrow_owner"}
         /\ escrows[last'.escrow].data_len = EscrowLEN
         /\ last'.mint_a # escrows[last'.escrow].rec.mint_a)
        => last'.res # "Ok" ]_vars

\* C30 as stated: a Config::set_inner that returns an error leaves every
\* field of the record as it was before the call.
C30_Claim ==
    [][ (last'.op = "set_inner" /\ last'.res # "Ok")
        => config' = config ]_vars

====
